---- MODULE Spec2Model ----
(***************************************************************************)
(* A model of the tsm hierarchical state machine runtime.                  *)
(*                                                                         *)
(*   include/Event.h                 Event (id, data; equality by id)      *)
(*   include/Transition.h            StateTransitionTableT: add, next,     *)
(*                                   Transition::doTransition              *)
(*   include/AsyncExecutionPolicy.h  worker thread, step, processEvent     *)
(*   tsm.h                           StateMachine: startHSM, stopHSM,      *)
(*                                   execute; the single stepped example   *)
(*                                                                         *)
(* EventQueue.h, State.h and the Hsm that the policies wrap are not part   *)
(* of the sources; they are modelled from the specification and marked so. *)
(***************************************************************************)
EXTENDS Integers, Sequences, FiniteSets, TLC

VARIABLES
    data_,          \* the transition table: a set of (key, transition) elements
    eventSet_,      \* the events the table recognizes (std::set<Event>)
    adds,           \* history of add() calls, in call order
    queue,          \* EventQueue: the deque of events
    stopped,        \* EventQueue: the stopped (interrupt) flag
    added,          \* history: events inserted into the queue
    dequeued,       \* history: events returned by nextEvent()
    lastDeq,        \* the last dequeue: its event, who took it, what was due
    frontPending,   \* the event last pushed to the front and not yet dequeued
    currentState,   \* currentState_ of each machine
    interrupt,      \* interrupt_ of each machine / of the policy
    pcW,            \* position of the worker (dispatcher) thread
    pcM,            \* position of the caller thread
    frames,         \* machines whose execute() is on the worker's call stack
    cur,            \* the worker's local nextEvent
    todo,           \* the steps of the transition in progress still to run
    hooks,          \* the hooks run for the event in `cur`, in order
    guardEvals,     \* how often the guard was evaluated for the event in `cur`
    outcome,        \* what the last dispatch did with its event
    sent,           \* number of sendEvent calls made so far
    counter,        \* Event::counter_inc: the thread_local counter, per thread
    made,           \* history: the default-constructed events and their threads
    sched           \* which thread's position pcW .. outcome show, and the
                    \* position of the other thread running execute(), if any

vars == <<data_, eventSet_, adds, queue, stopped, added, dequeued, lastDeq,
          frontPending,
          currentState, interrupt, pcW, pcM, frames, cur, todo, hooks,
          guardEvals, outcome, sent, counter, made, sched>>

eventVars == <<counter, made>>
tableVars == <<data_, eventSet_, adds>>
queueVars == <<queue, stopped, added, dequeued, lastDeq, frontPending>>
machineVars == <<currentState, interrupt, pcW, pcM, frames, cur, todo, hooks,
                 guardEvals, outcome, sent, sched>>

(***************************************************************************)
(* Bounds of the model.                                                    *)
(***************************************************************************)
MaxAdds == 3        \* add() calls made on a table
MaxSend == 3        \* events sent to a machine
MaxPerProducer == 2 \* sendEvent calls per producer thread of the queue
MaxEvents == 12     \* default-constructed events

(***************************************************************************)
(* Event.h                                                                 *)
(***************************************************************************)
NoState == "nil"
NoEvent == [id |-> 0, data |-> 0]

\* Event(event_id_t id, event_data_t data)
Event(id, data) == [id |-> id, data |-> data]

\* bool operator==(const Event& rhs) const { return this->id == rhs.id; }
EventEq(a, b) == a.id = b.id

(***************************************************************************)
(* Transition.h / tsm.h: the transition table                              *)
(***************************************************************************)
NoTransition == [toState |-> NoState, action |-> FALSE, guard |-> FALSE]

\* Transition(State& toState, ActionFn action, GuardFn guard); action and
\* guard record whether a callable was given (nullptr otherwise).
Transition(toState, action, guard) ==
    [toState |-> toState, action |-> action, guard |-> guard]

\* data_.find(pair): the elements whose key equals (fromState, onEvent);
\* key equality compares the state and the event, the event by its id.
find(tbl, fromState, onEvent) ==
    {el \in tbl : el.from = fromState /\ EventEq(el.event, onEvent)}

\* addTransition: data_.insert(e). unordered_map::insert leaves the map as it
\* is when an element with an equal key exists.
addTransition(tbl, fromState, onEvent, t) ==
    IF find(tbl, fromState, onEvent) # {}
        THEN tbl
        ELSE tbl \cup {[from |-> fromState, event |-> onEvent, t |-> t]}

\* eventSet_.insert(onEvent): std::set<Event> ordered by id, no duplicates.
eventSetInsert(set, onEvent) ==
    IF \E e \in set : EventEq(e, onEvent) THEN set ELSE set \cup {onEvent}

\* next(fromState, onEvent): the stored transition, or nullptr.
next(tbl, fromState, onEvent) ==
    IF find(tbl, fromState, onEvent) # {}
        THEN (CHOOSE el \in find(tbl, fromState, onEvent) : TRUE).t
        ELSE NoTransition

(***************************************************************************)
(* Specification of the table alone: any sequence of add() calls.          *)
(***************************************************************************)
TableStates == {"S0", "S1"}
TableTargets == {"S1", "S2"}
TableEvents == {Event(1, 0), Event(1, 1), Event(2, 0)}

Machines == {"H", "P", "C", "O", "A", "B"}

\* What a dispatch did with its event: kind, the state it looked up from and
\* the transition it hit.
Outcome(kind, from, t) == [kind |-> kind, from |-> from, t |-> t]
NoOutcome == Outcome("none", NoState, NoTransition)

\* The position of a thread running execute(): its place in the code, the
\* machines on its call stack, its local nextEvent and the transition it is
\* in the middle of.
Context(th, pc, fr, e, td, hk, n, oc) ==
    [me |-> th, pcW |-> pc, frames |-> fr, cur |-> e, todo |-> td,
     hooks |-> hk, guardEvals |-> n, outcome |-> oc]

\* There is one worker thread, "worker", and no other.
NoContext == Context("second", "none", <<>>, NoEvent, <<>>, <<>>, 0, NoOutcome)
OneWorker == [me |-> "worker", saved |-> NoContext]

IdleMachine ==
    /\ sched = OneWorker
    /\ currentState = [m \in Machines |-> NoState]
    /\ interrupt = [m \in Machines |-> FALSE]
    /\ pcW = "none"
    /\ pcM = "idle"
    /\ frames = <<>>
    /\ cur = NoEvent
    /\ todo = <<>>
    /\ hooks = <<>>
    /\ guardEvals = 0
    /\ outcome = NoOutcome
    /\ sent = 0

\* Before main runs, the static null_event has been default-constructed on
\* the main thread.
Threads == {"main", "worker", "second"}
EventsInit ==
    /\ counter = [th \in Threads |-> IF th = "main" THEN 1 ELSE 0]
    /\ made = <<[ev |-> Event(1, 0), by |-> "main"]>>

\* counter_inc on thread th: return ++counter
counter_inc(ctr, th) == [ctr EXCEPT ![th] = @ + 1]

\* Event() on thread th: id(Event::counter_inc()), data(0)
EventDefault(th) ==
    /\ counter' = counter_inc(counter, th)
    /\ made' = Append(made, [ev |-> Event(counter'[th], 0), by |-> th])

\* Event nextEvent; in a loop that may run without end.  The events and the
\* counters are followed for the first MaxEvents constructions; the loop
\* goes on past them, its local event no longer on record.
EventLocal(th) ==
    IF Len(made) < MaxEvents THEN EventDefault(th) ELSE UNCHANGED eventVars

EmptyQueue ==
    /\ queue = <<>>
    /\ stopped = FALSE
    /\ added = <<>>
    /\ dequeued = <<>>
    /\ lastDeq = [ev |-> NoEvent, by |-> "none", due |-> NoEvent]
    /\ frontPending = NoEvent

EmptyTable ==
    /\ data_ = {}
    /\ eventSet_ = {}
    /\ adds = <<>>

TableInit == EmptyTable /\ EmptyQueue /\ IdleMachine /\ EventsInit

\* add(fromState, onEvent, toState, action, guard)
Add(fromState, onEvent, toState, action, guard) ==
    /\ Len(adds) < MaxAdds
    /\ data_' = addTransition(data_, fromState, onEvent,
                              Transition(toState, action, guard))
    /\ eventSet_' = eventSetInsert(eventSet_, onEvent)
    /\ adds' = Append(adds, [from |-> fromState, event |-> onEvent,
                             t |-> Transition(toState, action, guard)])
    /\ UNCHANGED <<queueVars, machineVars, eventVars>>

TableNext ==
    \E f \in TableStates, e \in TableEvents, to \in TableTargets,
       a \in BOOLEAN :
        Add(f, e, to, a, FALSE)

SpecTable == TableInit /\ [][TableNext]_vars

\* The add() calls made so far for the key (fromState, onEvent), in order.
RECURSIVE AddsFor(_, _, _)
AddsFor(log, fromState, onEvent) ==
    IF log = <<>> THEN <<>>
    ELSE LET rest == AddsFor(Tail(log), fromState, onEvent)
         IN  IF Head(log).from = fromState /\ EventEq(Head(log).event, onEvent)
                 THEN <<Head(log)>> \o rest
                 ELSE rest

\* C3 (as stated): after any sequence of add calls the table holds at most
\* one transition per key (fromState, event), and next() returns the
\* transition of the LAST add for the key: a later add overwrites.
C3_LastAddWins ==
    \A f \in TableStates, e \in TableEvents :
        LET mine == AddsFor(adds, f, e)
        IN  /\ Cardinality(find(data_, f, e)) <= 1
            /\ mine # <<>> => next(data_, f, e) = mine[Len(mine)].t

(***************************************************************************)
(* EventQueue (EventQueue.h is not among the sources): a deque and a       *)
(* stopped flag under one mutex, so every operation below is one atomic    *)
(* step of the thread that calls it.                                       *)
(***************************************************************************)
\* addBack / addEvent: append.
addBack(q, e) == Append(q, e)

\* addFront: prepend.
addFront(q, e) == <<e>> \o q

\* next() may return: an event is available or the queue is stopped.
nextReady(q, stop) == q # <<>> \/ stop

\* next() signals Interrupted whenever the queue is stopped.
nextInterrupted(q, stop) == stop

\* The event next() returns when it is not interrupted: the head.
front(q) == Head(q)

\* The deque after next() returned its head.
popFront(q) == Tail(q)

\* sendEvent pushes to the front instead of appending.
sendEventFront(q, e) == addFront(q, e)

\* sendEvent assigns the event instead of appending it.
sendEventAssign(q, e) == <<e>>

\* AsyncExecutionPolicy::sendEvent: eventQueue_.addEvent(event)
sendEvent(q, e) == addBack(q, e)

(***************************************************************************)
(* Specification of the queue alone: producer threads call sendEvent, one  *)
(* thread pushes events to the front, one consumer calls next().           *)
(***************************************************************************)
Producers == {1, 2}
FrontProducer == Cardinality(Producers) + 1

\* The k-th event of producer p: a default id of its own, data k.
EventOf(p, k) == Event(10 * p + k, k)

IsBack(e) == e.id < 10 * FrontProducer

QueueInit ==
    /\ EmptyTable
    /\ EmptyQueue
    /\ EventsInit
    /\ currentState = [m \in Machines |-> NoState]
    /\ interrupt = [m \in Machines |-> FALSE]
    /\ pcW = "none"
    /\ pcM = "idle"
    /\ frames = <<>>
    /\ cur = NoEvent
    /\ todo = <<>>
    /\ hooks = <<>>
    /\ guardEvals = 0
    /\ outcome = NoOutcome
    /\ sent = [p \in Producers \cup {FrontProducer} |-> 0]
    /\ sched = OneWorker

queueFrame == <<tableVars, eventVars, sched, stopped, currentState, interrupt, pcW, pcM, frames,
                cur, todo, hooks, guardEvals, outcome>>

\* A producer thread: sendEvent(e).
QSendEvent(p) ==
    /\ sent[p] < MaxPerProducer
    /\ queue' = sendEvent(queue, EventOf(p, sent[p] + 1))
    /\ added' = Append(added, EventOf(p, sent[p] + 1))
    /\ sent' = [sent EXCEPT ![p] = @ + 1]
    /\ UNCHANGED <<dequeued, lastDeq, frontPending, queueFrame>>

\* A thread returns an event to the head: addFront(e).
QAddFront ==
    /\ sent[FrontProducer] < MaxPerProducer
    /\ queue' = addFront(queue, EventOf(FrontProducer, sent[FrontProducer] + 1))
    /\ added' = Append(added, EventOf(FrontProducer, sent[FrontProducer] + 1))
    /\ frontPending' = EventOf(FrontProducer, sent[FrontProducer] + 1)
    /\ sent' = [sent EXCEPT ![FrontProducer] = @ + 1]
    /\ UNCHANGED <<dequeued, lastDeq, queueFrame>>

\* The consumer: next(), which blocks while the queue is empty.
QNextEvent ==
    /\ nextReady(queue, stopped)
    /\ ~nextInterrupted(queue, stopped)
    /\ dequeued' = Append(dequeued, front(queue))
    /\ lastDeq' = [ev |-> front(queue), by |-> "consumer", due |-> frontPending]
    /\ queue' = popFront(queue)
    /\ frontPending' = NoEvent
    /\ UNCHANGED <<added, sent, queueFrame>>

QueueNext ==
    \/ \E p \in Producers : QSendEvent(p)
    \/ QAddFront
    \/ QNextEvent

SpecQueue == QueueInit /\ [][QueueNext]_vars

RECURSIVE Count(_, _)
Count(s, e) ==
    IF s = <<>> THEN 0
    ELSE (IF Head(s) = e THEN 1 ELSE 0) + Count(Tail(s), e)

RECURSIVE OnlyBack(_)
OnlyBack(s) ==
    IF s = <<>> THEN <<>>
    ELSE (IF IsBack(Head(s)) THEN <<Head(s)>> ELSE <<>>) \o OnlyBack(Tail(s))

IsPrefix(s, t) == Len(s) <= Len(t) /\ s = SubSeq(t, 1, Len(s))

Range(s) == {s[i] : i \in 1..Len(s)}

AllSent == \A p \in DOMAIN sent : sent[p] = MaxPerProducer

\* C6: the events added with addBack come out of next() in the order of
\* their insertion, and a next() that follows addFront(e) returns e, whatever
\* was waiting.
C6_QueueOrder ==
    /\ IsPrefix(OnlyBack(dequeued), OnlyBack(added))
    /\ frontPending # NoEvent => queue # <<>> /\ Head(queue) = frontPending
    /\ lastDeq.due # NoEvent => lastDeq.ev = lastDeq.due

\* C6 witness: addFront(e) was called while events added at the back were
\* waiting, and the next() after it returned e.
C6_Witness ==
    /\ lastDeq.due # NoEvent
    /\ lastDeq.ev = lastDeq.due
    /\ queue # <<>> /\ IsBack(Head(queue))
    /\ Len(OnlyBack(dequeued)) >= 2

\* C7: every event added is dequeued exactly once: at any moment each event
\* is as often in the queue or dequeued as it was added, and once all
\* producers are done and the queue is drained the dequeued multiset is the
\* added multiset.
C7_NoLossNoDup ==
    /\ \A e \in Range(added) \cup Range(dequeued) \cup Range(queue) :
          Count(added, e) = Count(dequeued, e) + Count(queue, e)
    /\ (AllSent /\ queue = <<>>) =>
          /\ Len(dequeued) = Len(added)
          /\ \A e \in Range(added) : Count(dequeued, e) = 1

\* C7 witness: both producers have added all their events, interleaved, and
\* the consumer has drained the queue.
C7_Witness ==
    /\ AllSent
    /\ queue = <<>>
    /\ Len(dequeued) = Cardinality(DOMAIN sent) * MaxPerProducer
    /\ \E i \in 1..(Len(added) - 2) :
          /\ added[i].id \div 10 = 1
          /\ added[i + 1].id \div 10 = 2
          /\ added[i + 2].id \div 10 = 1

(***************************************************************************)
(* The machine the execution policies wrap: the socket machine of the      *)
(* example (tsm.h, SocketSMDefinition).  Its six events are members,       *)
(* default-constructed on the main thread after null_event, in the order   *)
(* of their declaration: their ids are 2 to 7.                             *)
(***************************************************************************)
sock_open == 2
bind == 3
listen == 4
connect == 5
accept == 6
close == 7

Decl(from, id, to, action, guard) ==
    [from |-> from, event |-> Event(id, 0), t |-> Transition(to, action, guard)]

\* The seven rows of the socket machine, each declared with
\* add(fromState, onEvent, toState, action, guard).
DeclsWith(action, guard) ==
    << Decl("Closed", sock_open, "Ready", action, guard),
       Decl("Ready", connect, "Open", action, guard),
       Decl("Ready", bind, "Bound", action, guard),
       Decl("Bound", listen, "Listening", action, guard),
       Decl("Listening", accept, "Listening", action, guard),
       Decl("Listening", close, "Closed", action, guard),
       Decl("Open", close, "Closed", action, guard) >>

\* The constructor of the example: add(from, event, to), the action and the
\* guard left at their default, nullptr.
SocketDecls == DeclsWith(FALSE, FALSE)

\* The events made on the main thread once the machine is constructed:
\* null_event, then sock_open, bind, listen, connect, accept, close.
SocketEventsInit ==
    /\ counter = [th \in Threads |-> IF th = "main" THEN close ELSE 0]
    /\ made = [i \in 1 .. close |-> [ev |-> Event(i, 0), by |-> "main"]]

\* The table and the event set after the constructor's add() calls.
RECURSIVE TableOf(_)
TableOf(decls) ==
    IF decls = <<>> THEN {}
    ELSE LET d == decls[Len(decls)]
         IN  addTransition(TableOf(SubSeq(decls, 1, Len(decls) - 1)),
                           d.from, d.event, d.t)

RECURSIVE EventSetOf(_)
EventSetOf(decls) ==
    IF decls = <<>> THEN {}
    ELSE eventSetInsert(EventSetOf(SubSeq(decls, 1, Len(decls) - 1)),
                        decls[Len(decls)].event)

\* getStartState() / getStopState() of the machine a policy wraps.
StartOfH == "Closed"

\* The events producers send: id and a payload (the send's number).
SentIds == {sock_open, connect, close}

(***************************************************************************)
(* Transition::doTransition (Transition.h) as the list of steps it runs    *)
(* once the guard's result is known; the dispatcher that calls it is       *)
(* modelled from the specification (4.1, steps 3 to 6).                    *)
(***************************************************************************)
Step(op, st) == [op |-> op, st |-> st]

\* bool result = guard && guard(e): the guard runs once when there is one.
guardCallsTwice(t) == IF t.guard THEN 2 ELSE 0

guardCalls(t) == IF t.guard THEN 1 ELSE 0

\* The possible values of `result`.
GuardResults(t) == IF t.guard THEN BOOLEAN ELSE {FALSE}

\* The guard's result is not consulted.
doTransitionIgnoreGuard(t, result) ==
    <<Step("onExit", NoState)>>
    \o (IF t.action THEN <<Step("action", NoState)>> ELSE <<>>)
    \o <<Step("setCurrentState", t.toState), Step("onEntry", t.toState)>>

doTransition(t, result) ==
    IF ~t.guard \/ result
        THEN <<Step("onExit", NoState)>>
             \o (IF t.action THEN <<Step("action", NoState)>> ELSE <<>>)
             \o <<Step("setCurrentState", t.toState),
                  Step("onEntry", t.toState)>>
        ELSE <<>>

\* Dispatch of a hit: doTransition, then execute() of the state entered.
dispatchSteps(t, result) ==
    IF doTransition(t, result) # <<>>
        THEN doTransition(t, result) \o <<Step("execute", NoState)>>
        ELSE <<>>

\* A step that goes through currentState_ while it is null.
stepFaults(step, cs) == step.op \in {"onExit", "execute"} /\ cs = NoState

\* currentState_ after a step.
stepState(step, cs) == IF step.op = "setCurrentState" THEN step.st ELSE cs

\* The record of a step: what ran, on which state, for which event, after
\* how many dequeues.
stepHook(step, cs, e, n) ==
    [op |-> step.op,
     st |-> IF step.op \in {"onExit", "execute"} THEN cs ELSE step.st,
     ev |-> e, n |-> n]

RECURSIVE runAll(_, _, _, _, _)
runAll(steps, cs, hk, e, n) ==
    IF steps = <<>> THEN [cs |-> cs, hooks |-> hk]
    ELSE runAll(Tail(steps), stepState(Head(steps), cs),
                Append(hk, stepHook(Head(steps), cs, e, n)), e, n)

(***************************************************************************)
(* AsyncExecutionPolicy (AsyncExecutionPolicy.h): a caller thread that     *)
(* starts, feeds, stops and destroys the machine "H", and the worker       *)
(* thread running step().  interrupt_ is a plain bool shared by the two;   *)
(* the worker's loop calls into the queue's mutex between two reads, so    *)
(* each read sees the value last written.                                  *)
(***************************************************************************)
AsyncInit ==
    /\ data_ = TableOf(SocketDecls)
    /\ eventSet_ = EventSetOf(SocketDecls)
    /\ adds = SocketDecls
    /\ EmptyQueue
    /\ SocketEventsInit
    /\ IdleMachine

\* The same machine with its rows declared with or without an action and
\* with or without a guard: the inputs of Transition::doTransition.
DispatchInit ==
    /\ \E action \in BOOLEAN, guard \in BOOLEAN :
          /\ data_ = TableOf(DeclsWith(action, guard))
          /\ adds = DeclsWith(action, guard)
    /\ eventSet_ = EventSetOf(SocketDecls)
    /\ EmptyQueue
    /\ SocketEventsInit
    /\ IdleMachine

callerFrame == <<tableVars, eventVars, sched, cur, todo, hooks, guardEvals, outcome, frames>>
workerFrame == <<tableVars, eventVars, sched, added, sent, pcM, frames>>

\* onEntry: StateType::onEntry(e), then the worker thread is started.
AsyncOnEntry ==
    /\ pcM = "idle"
    /\ currentState' = [currentState EXCEPT !["H"] = StartOfH]
    /\ pcW' = "loop"
    /\ pcM' = "running"
    /\ UNCHANGED <<queueVars, interrupt, sent, callerFrame>>

\* sendEvent, from the caller or any other producer thread.
AsyncSendEvent(id) ==
    /\ pcM \in {"idle", "running", "exit1", "exit2", "exited"}
    /\ sent < MaxSend
    /\ queue' = sendEvent(queue, Event(id, sent + 1))
    /\ added' = Append(added, Event(id, sent + 1))
    /\ sent' = sent + 1
    /\ UNCHANGED <<stopped, dequeued, lastDeq, frontPending, currentState,
                   interrupt, pcW, pcM, callerFrame>>

\* onExit, first statement: eventQueue_.stop()
AsyncOnExitStop ==
    /\ pcM = "running"
    /\ stopped' = TRUE
    /\ pcM' = "exit1"
    /\ UNCHANGED <<queue, added, dequeued, lastDeq, frontPending, currentState,
                   interrupt, pcW, sent, callerFrame>>

\* onExit, second statement: interrupt_ = true
AsyncOnExitInterrupt ==
    /\ pcM = "exit1"
    /\ interrupt' = [interrupt EXCEPT !["H"] = TRUE]
    /\ pcM' = "exit2"
    /\ UNCHANGED <<queueVars, currentState, pcW, sent, callerFrame>>

\* onExit, last statement: StateType::onExit(e), which leaves the machine
\* without a current state; onExit then returns.
AsyncOnExitState ==
    /\ pcM = "exit2"
    /\ currentState' = [currentState EXCEPT !["H"] = NoState]
    /\ pcM' = "exited"
    /\ UNCHANGED <<queueVars, interrupt, pcW, sent, callerFrame>>

\* ~AsyncExecutionPolicy, first statement: interrupt_ = true
AsyncDtorInterrupt ==
    /\ pcM \in {"idle", "running", "exited"}
    /\ interrupt' = [interrupt EXCEPT !["H"] = TRUE]
    /\ pcM' = "dtor"
    /\ UNCHANGED <<queueVars, currentState, pcW, sent, callerFrame>>

\* ~AsyncExecutionPolicy: if (smThread_.joinable()) smThread_.join()
AsyncDtorJoin ==
    /\ pcM = "dtor"
    /\ pcW \in {"none", "done"}
    /\ pcW' = IF pcW = "done" THEN "joined" ELSE pcW
    /\ pcM' = "destroyed"
    /\ UNCHANGED <<queueVars, currentState, interrupt, sent, callerFrame>>

\* step: while (!interrupt_)
AsyncStepLoop ==
    /\ pcW = "loop"
    /\ pcW' = IF interrupt["H"] THEN "done" ELSE "next"
    /\ UNCHANGED <<queueVars, currentState, interrupt, cur, todo, hooks,
                   guardEvals, outcome, workerFrame>>

\* processEvent: nextEvent = eventQueue_.nextEvent(), a blocking wait
AsyncNextEvent ==
    /\ pcW = "next"
    /\ nextReady(queue, stopped)
    /\ IF nextInterrupted(queue, stopped)
          THEN /\ cur' = NoEvent
               /\ UNCHANGED <<queue, dequeued, lastDeq, frontPending>>
          ELSE /\ cur' = front(queue)
               /\ queue' = popFront(queue)
               /\ dequeued' = Append(dequeued, front(queue))
               /\ lastDeq' = [ev |-> front(queue), by |-> "H",
                              due |-> frontPending]
               /\ frontPending' = NoEvent
    /\ hooks' = <<>>
    /\ guardEvals' = 0
    /\ outcome' = NoOutcome
    /\ pcW' = "test"
    /\ UNCHANGED <<stopped, currentState, interrupt, todo, workerFrame>>

\* processEvent: if (!eventQueue_.interrupted()) dispatch else log
AsyncInterruptedTest ==
    /\ pcW = "test"
    /\ IF ~stopped
          THEN pcW' = "dispatch" /\ UNCHANGED outcome
          ELSE pcW' = "loop" /\ outcome' = Outcome("dropped", NoState, NoTransition)
    /\ UNCHANGED <<queueVars, currentState, interrupt, cur, todo, hooks,
                   guardEvals, workerFrame>>

\* dispatch: the table lookup at the current state.
AsyncDispatch ==
    /\ pcW = "dispatch"
    /\ IF currentState["H"] = NoState
          THEN pcW' = "fault" /\ UNCHANGED outcome
          ELSE LET t == next(data_, currentState["H"], cur)
               IN  IF t = NoTransition
                      THEN /\ pcW' = "loop"
                           /\ outcome' = Outcome("unhandled", currentState["H"], t)
                      ELSE /\ pcW' = "doTransition"
                           /\ outcome' = Outcome("hit", currentState["H"], t)
    /\ UNCHANGED <<queueVars, currentState, interrupt, cur, todo, hooks,
                   guardEvals, workerFrame>>

\* doTransition: the guard is evaluated and decides what runs.
AsyncDoTransition ==
    /\ pcW = "doTransition"
    /\ \E g \in GuardResults(outcome.t) :
          /\ todo' = dispatchSteps(outcome.t, g)
          /\ outcome' = [outcome EXCEPT !.kind =
                            IF outcome.t.guard /\ ~g THEN "rejected" ELSE "taking"]
    /\ guardEvals' = guardEvals + guardCalls(outcome.t)
    /\ pcW' = IF todo' = <<>> THEN "loop" ELSE "run"
    /\ UNCHANGED <<queueVars, currentState, interrupt, cur, hooks, workerFrame>>

\* One step of the transition: a hook, the action, or the assignment.
AsyncRunStep ==
    /\ pcW = "run"
    /\ IF stepFaults(Head(todo), currentState["H"])
          THEN /\ pcW' = "fault"
               /\ UNCHANGED <<currentState, hooks, todo, outcome>>
          ELSE /\ currentState' = [currentState EXCEPT !["H"] =
                                      stepState(Head(todo), @)]
               /\ hooks' = Append(hooks, stepHook(Head(todo), currentState["H"],
                                                  cur, Len(dequeued)))
               /\ todo' = Tail(todo)
               /\ pcW' = IF Tail(todo) = <<>> THEN "loop" ELSE "run"
               /\ outcome' = [outcome EXCEPT !.kind =
                                 IF Tail(todo) = <<>> THEN "transitioned" ELSE @]
    /\ UNCHANGED <<queueVars, interrupt, cur, guardEvals, workerFrame>>

AsyncWorker ==
    \/ AsyncStepLoop
    \/ AsyncNextEvent
    \/ AsyncInterruptedTest
    \/ AsyncDispatch
    \/ AsyncDoTransition
    \/ AsyncRunStep

AsyncNext ==
    \/ AsyncOnEntry
    \/ \E id \in SentIds : AsyncSendEvent(id)
    \/ AsyncOnExitStop
    \/ AsyncOnExitInterrupt
    \/ AsyncOnExitState
    \/ AsyncDtorInterrupt
    \/ AsyncDtorJoin
    \/ AsyncWorker

SpecAsync == AsyncInit /\ [][AsyncNext]_vars

\* The policy over the machines of DispatchInit.
SpecDispatch == DispatchInit /\ [][AsyncNext]_vars

\* The threads make progress: the worker runs whenever it can, and a call in
\* progress on the caller thread runs to its end.  Whether and when the
\* caller starts, stops or destroys the machine is up to the caller.
FairSpecAsync ==
    /\ SpecAsync
    /\ WF_vars(AsyncWorker)
    /\ WF_vars(AsyncOnExitInterrupt \/ AsyncOnExitState \/ AsyncDtorJoin)

(***************************************************************************)
(* Claims about the dispatch of one event.                                 *)
(***************************************************************************)
Hook(op, st, e, n) == [op |-> op, st |-> st, ev |-> e, n |-> n]

\* The sequence the claim C1 states for event e, dequeued as the n-th, on a
\* transition t taken from state `from`.
ClaimedOrder(from, t, e, n) ==
    <<Hook("onExit", from, e, n)>>
    \o (IF t.action THEN <<Hook("action", NoState, e, n)>> ELSE <<>>)
    \o <<Hook("setCurrentState", t.toState, e, n),
         Hook("onEntry", t.toState, e, n),
         Hook("execute", t.toState, e, n)>>

\* C1 (as stated): for a dequeued event that hits a transition whose guard is
\* absent or returns true, what has run so far is always the beginning of:
\* onExit of the current state, the action if any, currentState := toState,
\* onEntry of toState, execute of toState; all of it for that one event with
\* no further dequeue in between; and when the dispatch is over all of it has
\* run.  The record kept by StateMachine::execute (SMRunStep) and the one
\* kept for Transition::doTransition have the same form.
C1_TransitionOrder ==
    outcome.kind \in {"taking", "transitioned"} =>
        /\ IsPrefix(hooks, ClaimedOrder(outcome.from, outcome.t, cur,
                                        Len(dequeued)))
        /\ lastDeq.ev = cur
        /\ outcome.kind = "transitioned" =>
              hooks = ClaimedOrder(outcome.from, outcome.t, cur, Len(dequeued))

\* C2: when the guard of the transition hit returns false, the event stays
\* consumed (out of the queue), the rejecting step leaves currentState and
\* the queue as they are, no hook, action or execute runs for the event, and
\* the guard has been evaluated exactly once.
C2_GuardRejects ==
    /\ [](outcome.kind = "rejected" =>
            /\ hooks = <<>>
            /\ todo = <<>>
            /\ guardEvals = 1
            /\ lastDeq.ev = cur
            /\ Count(queue, cur) = 0
            /\ Count(dequeued, cur) = 1)
    /\ [][(outcome'.kind = "rejected" /\ outcome.kind # "rejected") =>
            /\ currentState' = currentState
            /\ queue' = queue
            /\ pcW' = "loop"]_vars

\* C2 witness: connect was rejected by its guard in Ready, with another
\* event waiting.
C2_Witness ==
    /\ outcome.kind = "rejected"
    /\ outcome.from = "Ready"
    /\ currentState["H"] = "Ready"
    /\ cur.id = connect
    /\ queue # <<>>

\* C9 (as stated): once stop() has been called, the worker eventually
\* leaves its loop and is joined.
C9_CleanShutdown == (pcM = "exit1") ~> (pcW = "joined")

\* C10 (as stated): once stop()/onExit has returned, the worker thread has
\* terminated and been joined.
C10_StopJoins == pcM = "exited" => pcW = "joined"

(***************************************************************************)
(* The synchronous policy (its header is not among the sources; tsm.h,     *)
(* main, shows its use): no thread, the caller sends events and drives     *)
(* the machine "H" with step(), one call at a time.                        *)
(***************************************************************************)
\* step() waits like next() does when the queue is empty.
stepMayRunBlocking(q, stop) == nextReady(q, stop)

\* step() can always run to its end: it returns at once on an empty queue.
stepMayRun(q, stop) == TRUE

syncFrame == <<tableVars, eventVars, sched, stopped, added, interrupt, pcW, frames, todo>>

\* sm.startSM()
SyncStartSM ==
    /\ pcM = "idle"
    /\ currentState' = [currentState EXCEPT !["H"] = StartOfH]
    /\ pcM' = "running"
    /\ UNCHANGED <<queueVars, interrupt, pcW, frames, cur, todo, hooks,
                   guardEvals, outcome, sent, tableVars, eventVars, sched>>

\* sm.sendEvent(e)
SyncSendEvent(id) ==
    /\ pcM \in {"idle", "running"}
    /\ sent < MaxSend
    /\ queue' = sendEvent(queue, Event(id, sent + 1))
    /\ added' = Append(added, Event(id, sent + 1))
    /\ sent' = sent + 1
    /\ UNCHANGED <<stopped, dequeued, lastDeq, frontPending, currentState,
                   interrupt, pcW, pcM, frames, cur, todo, hooks, guardEvals,
                   outcome, tableVars, eventVars, sched>>

\* sm.step(): nothing on an empty queue, else one event is taken from the
\* head and dispatched.
SyncStep ==
    /\ pcM = "running"
    /\ stepMayRun(queue, stopped)
    /\ IF queue = <<>>
          THEN /\ outcome' = Outcome("empty", currentState["H"], NoTransition)
               /\ hooks' = <<>>
               /\ guardEvals' = 0
               /\ UNCHANGED <<queue, dequeued, lastDeq, frontPending,
                              currentState, cur>>
          ELSE LET e == front(queue)
                   cs == currentState["H"]
                   t == next(data_, cs, e)
               IN  /\ queue' = popFront(queue)
                   /\ dequeued' = Append(dequeued, e)
                   /\ lastDeq' = [ev |-> e, by |-> "H", due |-> frontPending]
                   /\ frontPending' = NoEvent
                   /\ cur' = e
                   /\ IF t = NoTransition
                         THEN /\ outcome' = Outcome("unhandled", cs, t)
                              /\ hooks' = <<>>
                              /\ guardEvals' = 0
                              /\ UNCHANGED currentState
                         ELSE \E g \in GuardResults(t) :
                                LET r == runAll(dispatchSteps(t, g), cs, <<>>, e,
                                                Len(dequeued) + 1)
                                IN  /\ currentState' =
                                          [currentState EXCEPT !["H"] = r.cs]
                                    /\ hooks' = r.hooks
                                    /\ guardEvals' = guardCalls(t)
                                    /\ outcome' = Outcome(
                                          IF t.guard /\ ~g THEN "rejected"
                                                           ELSE "transitioned",
                                          cs, t)
    /\ UNCHANGED <<sent, pcM, syncFrame>>

\* sm.stopSM()
SyncStopSM ==
    /\ pcM = "running"
    /\ currentState' = [currentState EXCEPT !["H"] = NoState]
    /\ pcM' = "stopped"
    /\ UNCHANGED <<queueVars, interrupt, pcW, frames, cur, todo, hooks,
                   guardEvals, outcome, sent, tableVars, eventVars, sched>>

SyncNext ==
    \/ SyncStartSM
    \/ \E id \in SentIds : SyncSendEvent(id)
    \/ SyncStep
    \/ SyncStopSM

SpecSync == AsyncInit /\ [][SyncNext]_vars

\* C8: on a started machine step() can always run to its end; on an empty
\* queue it changes neither currentState nor the queue and dequeues nothing;
\* on a non-empty queue it dequeues exactly one event, the head, and
\* performs one dispatch of it.
C8_StepOnce ==
    /\ [](pcM = "running" => ENABLED SyncStep)
    /\ [][SyncStep =>
            IF queue = <<>>
               THEN /\ queue' = queue
                    /\ currentState' = currentState
                    /\ dequeued' = dequeued
                    /\ outcome'.kind = "empty"
               ELSE /\ queue' = Tail(queue)
                    /\ dequeued' = Append(dequeued, Head(queue))
                    /\ cur' = Head(queue)
                    /\ outcome'.kind \in {"unhandled", "rejected", "transitioned"}
                    /\ \A i \in 1..Len(hooks') : hooks'[i].ev = Head(queue)]_vars

\* C8 witness: step() has returned on an empty queue after an earlier step()
\* had dispatched an event.
C8_Witness ==
    /\ pcM = "running"
    /\ outcome.kind = "empty"
    /\ queue = <<>>
    /\ Len(dequeued) >= 1
    /\ currentState["H"] = "Ready"

(***************************************************************************)
(* StateMachine (tsm.h): a root machine "P" one of whose states is the     *)
(* child machine "C".  Both share the event queue; the root owns the       *)
(* worker thread, which runs P.execute() and, nested in it, C.execute().   *)
(***************************************************************************)
NoMachine == "none"

\* parent_ of each machine.
ParentOf(m) ==
    IF m = "C" THEN "P" ELSE IF m \in {"A", "B"} THEN "O" ELSE NoMachine

\* getStartState() / getStopState() of each machine.
\* The orthogonal machine "O" and its children "A" and "B" are built with
\* no stop state, "O" with no start state either (nullptr).
StartOf(m) ==
    IF m = "P" THEN "p0" ELSE IF m = "C" THEN "c0"
    ELSE IF m = "A" THEN "a0" ELSE IF m = "B" THEN "b0" ELSE NoState
StopOf(m) ==
    IF m = "P" THEN "pEnd" ELSE IF m = "C" THEN "cEnd" ELSE NoState

\* A state that is itself a StateMachine.
IsMachine(st) == st = "C"

\* The add() calls of the constructors.  Events 1, 2 and 3 are known to
\* "P" and "C"; no state of either has a transition on event 4.  "A"
\* recognizes events 1, 2 and 4, "B" recognizes 3, 4 and 5.
DeclsOf(m) ==
    IF m = "A"
       THEN << Decl("a0", 1, "a1", FALSE, FALSE),
               Decl("a1", 1, "a0", FALSE, FALSE),
               Decl("a0", 2, "a0", FALSE, FALSE),
               Decl("a1", 4, "a0", FALSE, FALSE) >>
    ELSE IF m = "B"
       THEN << Decl("b0", 3, "b1", FALSE, FALSE),
               Decl("b1", 3, "b0", FALSE, FALSE),
               Decl("b0", 4, "b0", FALSE, FALSE),
               Decl("b1", 5, "b0", FALSE, FALSE) >>
    ELSE
    IF m = "P"
       THEN << Decl("p0", 1, "C", TRUE, FALSE),
               Decl("C", 2, "p0", FALSE, TRUE),
               Decl("C", 3, "pEnd", FALSE, FALSE),
               Decl("p0", 3, "pEnd", TRUE, FALSE) >>
       ELSE << Decl("c0", 1, "c1", TRUE, TRUE),
               Decl("c1", 1, "c0", FALSE, FALSE),
               Decl("c1", 3, "cEnd", FALSE, FALSE) >>

SMIds == 1 .. 4

\* The machine whose execute() the worker is in.
Top == frames[Len(frames)]

\* The miss branch of a child: eventQueue_.addFront(nextEvent)
requeue(q, e) == addFront(q, e)

\* Every machine hands an unhandled event on.
missPropagatesAlways(m) == TRUE

\* The miss branch: if (parent_) propagate, else discard.
missPropagates(m) == ParentOf(m) # NoMachine

\* TransitionT::doTransition() (not among the sources): the exit and entry
\* hooks of the transition; the action is returned to execute().
doTransitionSM(from, t) == <<Step("onExit", from), Step("onEntry", t.toState)>>

\* execute(), the guard having passed: doTransition, currentState_ = toState,
\* the debug log line that reads currentState_->name, the action if any,
\* currentState_->execute().
executeSteps(from, t) ==
    doTransitionSM(from, t)
    \o <<Step("setCurrentState", t.toState), Step("log", NoState)>>
    \o (IF t.action THEN <<Step("action", NoState)>> ELSE <<>>)
    \o <<Step("execute", NoState)>>

\* Whether a step that goes through currentState_ faults, cs being the
\* pointer's value: currentState_->execute() does when it is null; the
\* DLOG line does in a build that keeps debug logging and is skipped in one
\* that compiles it out (NDEBUG), and the sources do not say which.
derefFaults(step, cs) ==
    IF cs # NoState \/ step.op \notin {"log", "execute"} THEN {FALSE}
    ELSE IF step.op = "log" THEN BOOLEAN
    ELSE {TRUE}

\* bool result = t->guard && (this->*(t->guard))()
guardCallsSM(t) == IF t.guard THEN 1 ELSE 0

SMInit ==
    /\ data_ = [m \in {"P", "C"} |-> TableOf(DeclsOf(m))]
    /\ eventSet_ = [m \in {"P", "C"} |-> EventSetOf(DeclsOf(m))]
    /\ adds = [m \in {"P", "C"} |-> DeclsOf(m)]
    /\ EmptyQueue
    /\ EventsInit
    /\ IdleMachine

smCallerFrame == <<tableVars, eventVars, sched, cur, todo, hooks, guardEvals, outcome>>
smWorkerFrame == <<tableVars, eventVars, sched, added, sent, pcM>>

\* startHSM on the root: currentState_ = getStartState(), spawn the thread.
SMStartHSM ==
    /\ pcM = "idle"
    /\ currentState' = [currentState EXCEPT !["P"] = StartOf("P")]
    /\ frames' = <<"P">>
    /\ pcW' = "while"
    /\ pcM' = "running"
    /\ UNCHANGED <<queueVars, interrupt, sent, smCallerFrame>>

\* A producer appends an event to the shared queue.
SMSendEvent(id) ==
    /\ pcM \in {"idle", "running", "restarted", "exiting", "stop1", "stop2",
               "start2", "start3", "early1", "early2"}
    /\ sent < MaxSend
    /\ queue' = addBack(queue, Event(id, sent + 1))
    /\ added' = Append(added, Event(id, sent + 1))
    /\ sent' = sent + 1
    /\ UNCHANGED <<stopped, dequeued, lastDeq, frontPending, currentState,
                   interrupt, pcW, pcM, frames, smCallerFrame>>

\* OnExit on the root, first statement: currentState_ = nullptr
SMOnExit ==
    /\ pcM = "running"
    /\ currentState' = [currentState EXCEPT !["P"] = NoState]
    /\ pcM' = "exiting"
    /\ UNCHANGED <<queueVars, interrupt, pcW, frames, sent, smCallerFrame>>

\* stopHSM on the root (called directly, or from OnExit): interrupt_ = true
SMStopInterrupt ==
    /\ pcM \in {"running", "restarted", "exiting"}
    /\ interrupt' = [interrupt EXCEPT !["P"] = TRUE]
    /\ pcM' = "stop1"
    /\ UNCHANGED <<queueVars, currentState, pcW, frames, sent, smCallerFrame>>

\* stopHSM: eventQueue_.stop()
SMStopQueue ==
    /\ pcM = "stop1"
    /\ stopped' = TRUE
    /\ pcM' = "stop2"
    /\ UNCHANGED <<queue, added, dequeued, lastDeq, frontPending, currentState,
                   interrupt, pcW, frames, sent, smCallerFrame>>

\* stopHSM: smThread_.join()
SMStopJoin ==
    /\ pcM = "stop2"
    /\ pcW = "done"
    /\ pcW' = "joined"
    /\ pcM' = "stopped"
    /\ UNCHANGED <<queueVars, currentState, interrupt, frames, sent,
                   smCallerFrame>>

\* The record of the events taken out of the queue: an event that was pushed
\* back to the front and is taken again is on record already.
noteDequeue(hist, e, due) == IF e = due THEN hist ELSE Append(hist, e)

\* Leaving execute() of the machine on top: its caller's loop goes on, or
\* the thread ends.
Return(fr) ==
    IF Len(fr) = 1 THEN "done"
    ELSE IF fr[Len(fr) - 1] = "O"
            THEN (IF fr[Len(fr)] = "A" THEN "oHsm2" ELSE "oEvent")
            ELSE "while"
Pop(fr) == SubSeq(fr, 1, Len(fr) - 1)

\* execute: while (!interrupt_)
SMWhile ==
    /\ pcW = "while"
    /\ IF interrupt[Top]
          THEN pcW' = Return(frames) /\ frames' = Pop(frames)
          ELSE pcW' = "stopcheck" /\ UNCHANGED frames
    /\ UNCHANGED <<queueVars, currentState, interrupt, cur, todo, hooks,
                   guardEvals, outcome, smWorkerFrame>>

\* execute: if (currentState_ == getStopState()) { interrupt_ = true; break; }
SMStopCheck ==
    /\ pcW = "stopcheck"
    /\ IF currentState[Top] = StopOf(Top)
          THEN /\ interrupt' = [interrupt EXCEPT ![Top] = TRUE]
               /\ pcW' = Return(frames)
               /\ frames' = Pop(frames)
          ELSE pcW' = "event" /\ UNCHANGED <<interrupt, frames>>
    /\ UNCHANGED <<queueVars, currentState, cur, todo, hooks, guardEvals,
                   outcome, smWorkerFrame>>

\* execute: Event nextEvent; the local is default-constructed on the thread
\* that runs the loop, in every pass, before the call that waits.
SMEventLocal ==
    /\ pcW = "event"
    /\ EventLocal(sched.me)
    /\ pcW' = "next"
    /\ UNCHANGED <<queueVars, currentState, interrupt, cur, todo, hooks,
                   guardEvals, outcome, frames, tableVars, sched, added, sent,
                   pcM>>

\* execute: nextEvent = eventQueue_.nextEvent(), which throws when the queue
\* is stopped; the handler rethrows unless interrupt_ is set, and nothing
\* catches what it rethrows.
SMNextEvent ==
    /\ pcW = "next"
    /\ nextReady(queue, stopped)
    /\ IF nextInterrupted(queue, stopped)
          THEN /\ IF interrupt[Top]
                     THEN pcW' = Return(frames) /\ frames' = Pop(frames)
                     ELSE pcW' = "terminated" /\ UNCHANGED frames
               /\ UNCHANGED <<queue, dequeued, lastDeq, frontPending, cur,
                              hooks, guardEvals, outcome>>
          ELSE /\ cur' = front(queue)
               /\ queue' = popFront(queue)
               /\ dequeued' = noteDequeue(dequeued, front(queue), frontPending)
               /\ lastDeq' = [ev |-> front(queue), by |-> Top,
                              due |-> frontPending]
               /\ frontPending' = NoEvent
               /\ hooks' = <<>>
               /\ guardEvals' = 0
               /\ outcome' = NoOutcome
               /\ pcW' = "lookup"
               /\ UNCHANGED frames
    /\ UNCHANGED <<stopped, currentState, interrupt, todo, smWorkerFrame>>

\* execute: currentState_->name is logged, then t = table_.next(...); on a
\* miss the event goes back to the front for the parent, or is dropped.
SMLookup ==
    /\ pcW = "lookup"
    /\ IF currentState[Top] = NoState
          THEN /\ pcW' = "fault"
               /\ UNCHANGED <<queue, frontPending, outcome, frames>>
          ELSE LET t == next(data_[Top], currentState[Top], cur)
               IN  IF t # NoTransition
                      THEN /\ pcW' = "guard"
                           /\ outcome' = Outcome("hit", currentState[Top], t)
                           /\ UNCHANGED <<queue, frontPending, frames>>
                      ELSE IF missPropagates(Top)
                              THEN /\ queue' = requeue(queue, cur)
                                   /\ frontPending' = cur
                                   /\ outcome' = Outcome("propagated",
                                                         currentState[Top], t)
                                   /\ pcW' = Return(frames)
                                   /\ frames' = Pop(frames)
                              ELSE /\ outcome' = Outcome("unhandled",
                                                         currentState[Top], t)
                                   /\ pcW' = "while"
                                   /\ UNCHANGED <<queue, frontPending, frames>>
    /\ UNCHANGED <<stopped, added, dequeued, lastDeq, currentState, interrupt,
                   cur, todo, hooks, guardEvals, tableVars, eventVars, sched, sent,
                   pcM>>

\* execute: the guard, and what follows from its result.
SMGuard ==
    /\ pcW = "guard"
    /\ \E g \in GuardResults(outcome.t) :
          IF ~outcome.t.guard \/ g
             THEN /\ todo' = executeSteps(outcome.from, outcome.t)
                  /\ outcome' = [outcome EXCEPT !.kind = "taking"]
                  /\ pcW' = "run"
             ELSE /\ todo' = <<>>
                  /\ outcome' = [outcome EXCEPT !.kind = "rejected"]
                  /\ pcW' = "while"
    /\ guardEvals' = guardEvals + guardCallsSM(outcome.t)
    /\ UNCHANGED <<queueVars, currentState, interrupt, cur, hooks, frames,
                   smWorkerFrame>>

\* The states of the machines after a step of machine m:
\* OnExit of a machine clears its current state (and stopHSM sets its
\* interrupt), OnEntry of a machine is startHSM, the assignment is m's.
smStepState(step, m, cs) ==
    IF step.op = "setCurrentState" THEN [cs EXCEPT ![m] = step.st]
    ELSE IF step.op = "onExit" /\ IsMachine(step.st)
            THEN [cs EXCEPT ![step.st] = NoState]
    ELSE IF step.op = "onEntry" /\ IsMachine(step.st)
            THEN [cs EXCEPT ![step.st] = StartOf(step.st)]
    ELSE cs

smStepInterrupt(step, intr) ==
    IF step.op = "onExit" /\ IsMachine(step.st)
       THEN [intr EXCEPT ![step.st] = TRUE]
       ELSE intr

\* One step of the transition in progress.  The hooks, the assignment, the
\* action and execute() are put on record; the log line is not.
SMRunStep ==
    /\ pcW = "run"
    /\ LET step == Head(todo)
       IN  \E faults \in derefFaults(step, currentState[Top]) :
           IF faults
              THEN /\ pcW' = "fault"
                   /\ UNCHANGED <<currentState, interrupt, hooks, todo,
                                  outcome, frames>>
              ELSE /\ currentState' = smStepState(step, Top, currentState)
                   /\ interrupt' = smStepInterrupt(step, interrupt)
                   /\ hooks' = IF step.op = "log" THEN hooks
                               ELSE Append(hooks,
                                      Hook(step.op,
                                           IF step.op = "execute"
                                              THEN currentState[Top]
                                              ELSE step.st,
                                           cur, Len(dequeued)))
                   /\ todo' = Tail(todo)
                   /\ outcome' = [outcome EXCEPT !.kind =
                                     IF Tail(todo) = <<>> THEN "transitioned"
                                                          ELSE @]
                   /\ IF step.op = "execute"
                         THEN /\ pcW' = "while"
                              /\ frames' = IF IsMachine(currentState[Top])
                                              THEN Append(frames,
                                                          currentState[Top])
                                              ELSE frames
                         ELSE pcW' = "run" /\ UNCHANGED frames
    /\ UNCHANGED <<queueVars, cur, guardEvals, smWorkerFrame>>

SMWorker ==
    \/ SMWhile
    \/ SMStopCheck
    \/ SMEventLocal
    \/ SMNextEvent
    \/ SMLookup
    \/ SMGuard
    \/ SMRunStep

SMNext ==
    \/ SMStartHSM
    \/ \E id \in SMIds : SMSendEvent(id)
    \/ SMOnExit
    \/ SMStopInterrupt
    \/ SMStopQueue
    \/ SMStopJoin
    \/ SMWorker

SpecSM == SMInit /\ [][SMNext]_vars

(***************************************************************************)
(* Claims about stopping and destroying the asynchronous machine.          *)
(***************************************************************************)
\* C11 (as stated): when a started machine on which stop was never called
\* is destroyed, the worker is woken, leaves its loop, and the destructor's
\* join completes.
C11_DtorShutdown ==
    (pcM = "dtor" /\ pcW # "none" /\ ~stopped) ~> (pcM = "destroyed")

\* C12 (as stated): no event is taken out of the queue and then dropped
\* without being dispatched: what the worker drops on seeing the queue
\* interrupted is never an event it has dequeued.
C12_NoEventDropped ==
    outcome.kind = "dropped" => cur = NoEvent /\ Count(dequeued, cur) = 0

(***************************************************************************)
(* OrthogonalHSM (tsm.h): the root machine "O" with the two children "A"   *)
(* (hsm1_) and "B" (hsm2_), all on one queue.  The worker thread runs      *)
(* O.execute(), which calls A.execute() and B.execute() in turn; these are *)
(* StateMachine::execute, the worker steps above.                          *)
(***************************************************************************)
OrthoIds == {1, 3, 4, 5}

\* hsm1Events.find(nextEvent) != hsm1Events.end(); events compare by id.
recognizes(set, e) == \E x \in set : EventEq(x, e)

OrthoInit ==
    /\ data_ = [m \in {"A", "B"} |-> TableOf(DeclsOf(m))]
    /\ eventSet_ = [m \in {"A", "B"} |-> EventSetOf(DeclsOf(m))]
    /\ adds = [m \in {"A", "B"} |-> DeclsOf(m)]
    /\ EmptyQueue
    /\ EventsInit
    /\ IdleMachine

\* OnEntry of the root: hsm1_->OnEntry(), hsm2_->OnEntry(), then startHSM,
\* which sets currentState_ to the start state and starts the thread.
OrthoOnEntry ==
    /\ pcM = "idle"
    /\ currentState' = [currentState EXCEPT !["A"] = StartOf("A"),
                                            !["B"] = StartOf("B"),
                                            !["O"] = StartOf("O")]
    /\ frames' = <<"O">>
    /\ pcW' = "oWhile"
    /\ pcM' = "running"
    /\ UNCHANGED <<queueVars, interrupt, sent, smCallerFrame>>

\* startHSM of the root called directly, not through OnEntry:
\* currentState_ = getStartState() and the thread; the children are not
\* entered.
OrthoStartHSM ==
    /\ pcM = "idle"
    /\ currentState' = [currentState EXCEPT !["O"] = StartOf("O")]
    /\ frames' = <<"O">>
    /\ pcW' = "oWhile"
    /\ pcM' = "started"
    /\ UNCHANGED <<queueVars, interrupt, sent, smCallerFrame>>

\* A producer appends an event to the shared queue.
OrthoSendEvent(id) ==
    /\ pcM \in {"idle", "running", "started", "exitA1", "exitA", "exitB1", "exitB",
               "exitO", "stop1", "stop2"}
    /\ sent < MaxSend
    /\ queue' = addBack(queue, Event(id, sent + 1))
    /\ added' = Append(added, Event(id, sent + 1))
    /\ sent' = sent + 1
    /\ UNCHANGED <<stopped, dequeued, lastDeq, frontPending, currentState,
                   interrupt, pcW, pcM, frames, smCallerFrame>>

\* OnExit of the root, hsm1_->OnExit(): currentState_ = nullptr
OrthoOnExitHsm1 ==
    /\ pcM \in {"running", "started"}
    /\ currentState' = [currentState EXCEPT !["A"] = NoState]
    /\ pcM' = "exitA1"
    /\ UNCHANGED <<queueVars, interrupt, pcW, frames, sent, smCallerFrame>>

\* hsm1_->OnExit(), stopHSM of the child: interrupt_ = true
OrthoStopHsm1 ==
    /\ pcM = "exitA1"
    /\ interrupt' = [interrupt EXCEPT !["A"] = TRUE]
    /\ pcM' = "exitA"
    /\ UNCHANGED <<queueVars, currentState, pcW, frames, sent, smCallerFrame>>

\* OnExit of the root, hsm2_->OnExit(): currentState_ = nullptr
OrthoOnExitHsm2 ==
    /\ pcM = "exitA"
    /\ currentState' = [currentState EXCEPT !["B"] = NoState]
    /\ pcM' = "exitB1"
    /\ UNCHANGED <<queueVars, interrupt, pcW, frames, sent, smCallerFrame>>

\* hsm2_->OnExit(), stopHSM of the child: interrupt_ = true
OrthoStopHsm2 ==
    /\ pcM = "exitB1"
    /\ interrupt' = [interrupt EXCEPT !["B"] = TRUE]
    /\ pcM' = "exitB"
    /\ UNCHANGED <<queueVars, currentState, pcW, frames, sent, smCallerFrame>>

\* OnExit of the root, base_type::OnExit(): currentState_ = nullptr
OrthoOnExitBase ==
    /\ pcM = "exitB"
    /\ currentState' = [currentState EXCEPT !["O"] = NoState]
    /\ pcM' = "exitO"
    /\ UNCHANGED <<queueVars, interrupt, pcW, frames, sent, smCallerFrame>>

\* stopHSM of the root, from base_type::OnExit() or called directly:
\* interrupt_ = true
OrthoStopBase ==
    /\ pcM \in {"exitO", "running", "started"}
    /\ interrupt' = [interrupt EXCEPT !["O"] = TRUE]
    /\ pcM' = "stop1"
    /\ UNCHANGED <<queueVars, currentState, pcW, frames, sent, smCallerFrame>>

\* execute of the root: while (!interrupt_) hsm1_->execute()
OrthoWhile ==
    /\ pcW = "oWhile"
    /\ IF interrupt["O"]
          THEN pcW' = "done" /\ frames' = <<>>
          ELSE pcW' = "while" /\ frames' = Append(frames, "A")
    /\ UNCHANGED <<queueVars, currentState, interrupt, cur, todo, hooks,
                   guardEvals, outcome, smWorkerFrame>>

\* execute of the root: hsm2_->execute()
OrthoHsm2 ==
    /\ pcW = "oHsm2"
    /\ pcW' = "while"
    /\ frames' = Append(frames, "B")
    /\ UNCHANGED <<queueVars, currentState, interrupt, cur, todo, hooks,
                   guardEvals, outcome, smWorkerFrame>>

\* execute of the root: Event nextEvent;
OrthoEventLocal ==
    /\ pcW = "oEvent"
    /\ EventLocal(sched.me)
    /\ pcW' = "oNext"
    /\ UNCHANGED <<queueVars, currentState, interrupt, cur, todo, hooks,
                   guardEvals, outcome, frames, tableVars, sched, added, sent,
                   pcM>>

\* execute of the root: nextEvent = eventQueue_.nextEvent(), with the same
\* handler as StateMachine::execute.
OrthoNextEvent ==
    /\ pcW = "oNext"
    /\ nextReady(queue, stopped)
    /\ IF nextInterrupted(queue, stopped)
          THEN /\ IF interrupt["O"]
                     THEN pcW' = "done" /\ frames' = <<>>
                     ELSE pcW' = "terminated" /\ UNCHANGED frames
               /\ UNCHANGED <<queue, dequeued, lastDeq, frontPending, cur,
                              hooks, guardEvals, outcome>>
          ELSE /\ cur' = front(queue)
               /\ queue' = popFront(queue)
               /\ dequeued' = noteDequeue(dequeued, front(queue), frontPending)
               /\ lastDeq' = [ev |-> front(queue), by |-> "O",
                              due |-> frontPending]
               /\ frontPending' = NoEvent
               /\ hooks' = <<>>
               /\ guardEvals' = 0
               /\ outcome' = NoOutcome
               /\ pcW' = "oRoute"
               /\ UNCHANGED frames
    /\ UNCHANGED <<stopped, currentState, interrupt, todo, smWorkerFrame>>

\* execute of the root: an event of hsm1's event set goes back to the front
\* and the loop starts over; any other event is handed to the parent, or
\* dropped when there is none.
OrthoRoute ==
    /\ pcW = "oRoute"
    /\ IF recognizes(eventSet_["A"], cur)
          THEN /\ queue' = addFront(queue, cur)
               /\ frontPending' = cur
               /\ outcome' = Outcome("routed", NoState, NoTransition)
               /\ pcW' = "oWhile"
               /\ UNCHANGED frames
          ELSE IF missPropagates("O")
                  THEN /\ queue' = addFront(queue, cur)
                       /\ frontPending' = cur
                       /\ outcome' = Outcome("propagated", NoState,
                                             NoTransition)
                       /\ pcW' = Return(frames)
                       /\ frames' = Pop(frames)
                  ELSE /\ outcome' = Outcome("unhandled", NoState,
                                             NoTransition)
                       /\ pcW' = "oWhile"
                       /\ UNCHANGED <<queue, frontPending, frames>>
    /\ UNCHANGED <<stopped, added, dequeued, lastDeq, currentState, interrupt,
                   cur, todo, hooks, guardEvals, tableVars, eventVars, sched, sent,
                   pcM>>

OrthoWorker ==
    \/ OrthoWhile
    \/ OrthoHsm2
    \/ OrthoEventLocal
    \/ OrthoNextEvent
    \/ OrthoRoute
    \/ SMWorker

OrthoNext ==
    \/ OrthoOnEntry
    \/ OrthoStartHSM
    \/ \E id \in OrthoIds : OrthoSendEvent(id)
    \/ OrthoOnExitHsm1
    \/ OrthoStopHsm1
    \/ OrthoOnExitHsm2
    \/ OrthoStopHsm2
    \/ OrthoOnExitBase
    \/ OrthoStopBase
    \/ SMStopQueue
    \/ SMStopJoin
    \/ OrthoWorker

SpecOrtho == OrthoInit /\ [][OrthoNext]_vars

(***************************************************************************)
(* Claims about an event no transition is found for.  The miss branch of   *)
(* StateMachine::execute runs in the child "C" of the root "P" and in the  *)
(* children "A" and "B" of the orthogonal root "O"; the roots are "P",     *)
(* whose execute() is StateMachine's, and "O", whose execute() is          *)
(* OrthogonalHSM's.                                                        *)
(***************************************************************************)
\* C4 (as stated): when a child machine dequeues an event it has no
\* transition for at its current state, the event is pushed to the front of
\* the shared queue and the child's execute() returns to its parent; the
\* event stays at the head of the queue until it is dequeued, and the dequeue
\* that follows is made by the parent of that child and yields that same
\* event, id and data, whatever else was waiting.
C4_ParentPropagation ==
    /\ [](frontPending # NoEvent =>
            /\ queue # <<>>
            /\ Head(queue) = frontPending
            /\ Head(queue).id = cur.id /\ Head(queue).data = cur.data)
    /\ [][(SMLookup /\ ParentOf(Top) # NoMachine
           /\ currentState[Top] # NoState
           /\ next(data_[Top], currentState[Top], cur) = NoTransition)
          => /\ queue' = <<cur>> \o queue
             /\ frames' = Pop(frames)
             /\ frames' # <<>> /\ frames'[Len(frames')] = ParentOf(Top)]_vars
    /\ [][((SMNextEvent \/ OrthoNextEvent)
           /\ outcome.kind = "propagated" /\ frontPending # NoEvent
           /\ ~nextInterrupted(queue, stopped))
          => /\ lastDeq'.by = ParentOf(lastDeq.by)
             /\ lastDeq'.ev.id = frontPending.id
             /\ lastDeq'.ev.data = frontPending.data]_vars

\* An event id that is in the event set of neither child of "O".
StrangerIds == {6}

\* A machine with a parent is being run: the root is the orthogonal one.
IsOrthogonal == "A" \in DOMAIN data_

\* Either root, with its producers and its caller.
RootsInit == SMInit \/ OrthoInit

RootsNext ==
    \/ ~IsOrthogonal /\ SMNext
    \/ IsOrthogonal /\ OrthoNext
    \/ IsOrthogonal /\ \E id \in StrangerIds : OrthoSendEvent(id)

SpecRoots == RootsInit /\ [][RootsNext]_vars

C13_OrthoRouting ==
    /\ [][OrthoRoute =>
            IF recognizes(eventSet_["A"], cur) \/ recognizes(eventSet_["B"], cur)
               THEN /\ queue' = <<cur>> \o queue
                    /\ outcome'.kind = "routed"
               ELSE outcome'.kind \in {"unhandled", "propagated"}]_vars
    /\ [](outcome.kind = "unhandled" /\ lastDeq.by = "O"
            => ~recognizes(eventSet_["B"], cur))
    /\ [](outcome.kind \in {"hit", "taking", "transitioned"}
          /\ lastDeq.by \in {"A", "B"}
            => recognizes(eventSet_[lastDeq.by], cur))

\* C14 (as stated): an event that a child has dispatched is consumed, so the
\* other child never gets it, and an event both children recognize is
\* dispatched by A, never by B.
C14_OneChildOnly ==
    (outcome.kind \in {"hit", "taking", "transitioned"}
     /\ lastDeq.by \in {"A", "B"})
        => /\ Count(queue, cur) = 0
           /\ (recognizes(eventSet_["A"], cur) /\ recognizes(eventSet_["B"], cur))
                 => lastDeq.by = "A"

(***************************************************************************)
(* Claims about the life cycle of the StateMachine of tsm.h.               *)
(***************************************************************************)
\* C15 (as stated): start sets currentState to the start state; once the
\* machine has been stopped from outside, and equally once its worker has
\* ended because the stop state was reached, currentState is nil.
C15_LifecycleState ==
    /\ [][SMStartHSM => currentState'["P"] = StartOf("P")]_vars
    /\ [](pcM = "stopped" => currentState["P"] = NoState)
    /\ [](pcW = "done" /\ pcM = "running" => currentState["P"] = NoState)

(***************************************************************************)
(* The life-cycle calls made out of turn: startHSM on a machine that is   *)
(* running, stopHSM on one that was never started or is stopped already.   *)
(* Neither function tests the state of the machine.                        *)
(***************************************************************************)
\* startHSM while running, first statement: currentState_ = getStartState()
SMStartHSMAgain ==
    /\ pcM = "running"
    /\ currentState' = [currentState EXCEPT !["P"] = StartOf("P")]
    /\ pcM' = "start2"
    /\ UNCHANGED <<queueVars, interrupt, pcW, frames, sent, smCallerFrame>>

\* startHSM while running: std::thread(&StateMachine::execute, this) is
\* constructed, and a second thread starts to run execute() on the machine.
SMStartHSMAgainThread ==
    /\ pcM = "start2"
    /\ sched' = [sched EXCEPT !.saved =
                    Context("second", "while", <<"P">>, NoEvent, <<>>, <<>>, 0,
                            NoOutcome)]
    /\ pcM' = "start3"
    /\ UNCHANGED <<queueVars, currentState, interrupt, pcW, frames, sent,
                   tableVars, eventVars, cur, todo, hooks, guardEvals, outcome>>

\* startHSM while running: the new thread is move-assigned to smThread_,
\* which is joinable: std::terminate ends the process, both threads with it.
SMStartHSMAgainAssign ==
    /\ pcM = "start3"
    /\ pcW' = "terminated"
    /\ sched' = [sched EXCEPT !.saved.pcW = "terminated"]
    /\ pcM' = "aborted"
    /\ UNCHANGED <<queueVars, currentState, interrupt, frames, sent,
                   tableVars, eventVars, cur, todo, hooks, guardEvals, outcome>>

\* The two threads that run execute() take turns: pcW, frames, cur, todo,
\* hooks, guardEvals and outcome show the thread whose step comes next.
\* Neither runs once the process has ended.
SMSecondThread ==
    /\ sched.saved.pcW \notin {"none", "terminated", "fault"}
    /\ pcW \notin {"terminated", "fault"}
    /\ sched' = [me |-> sched.saved.me,
                 saved |-> Context(sched.me, pcW, frames, cur, todo, hooks,
                                   guardEvals, outcome)]
    /\ pcW' = sched.saved.pcW
    /\ frames' = sched.saved.frames
    /\ cur' = sched.saved.cur
    /\ todo' = sched.saved.todo
    /\ hooks' = sched.saved.hooks
    /\ guardEvals' = sched.saved.guardEvals
    /\ outcome' = sched.saved.outcome
    /\ UNCHANGED <<queueVars, currentState, interrupt, sent, pcM, tableVars,
                   eventVars>>

\* stopHSM before any startHSM, or after stopHSM: interrupt_ = true
SMStopHSMEarly ==
    /\ pcM \in {"idle", "stopped"}
    /\ interrupt' = [interrupt EXCEPT !["P"] = TRUE]
    /\ pcM' = "early1"
    /\ UNCHANGED <<queueVars, currentState, pcW, frames, sent, smCallerFrame>>

\* stopHSM out of turn: eventQueue_.stop()
SMStopHSMEarlyQueue ==
    /\ pcM = "early1"
    /\ stopped' = TRUE
    /\ pcM' = "early2"
    /\ UNCHANGED <<queue, added, dequeued, lastDeq, frontPending, currentState,
                   interrupt, pcW, frames, sent, smCallerFrame>>

\* stopHSM out of turn: smThread_.join() on a thread that is not joinable
\* throws std::system_error.
SMStopHSMEarlyJoin ==
    /\ pcM = "early2"
    /\ pcM' = "threw"
    /\ UNCHANGED <<queueVars, currentState, interrupt, pcW, frames, sent,
                   smCallerFrame>>

LifecycleError ==
    \/ SMStartHSMAgain
    \/ SMStartHSMAgainThread
    \/ SMStartHSMAgainAssign
    \/ SMStopHSMEarly
    \/ SMStopHSMEarlyQueue
    \/ SMStopHSMEarlyJoin

LifecycleNext ==
    \/ SMNext
    \/ SMStartHSMAgain
    \/ SMStartHSMAgainThread
    \/ SMStartHSMAgainAssign
    \/ SMSecondThread
    \/ SMStopHSMEarly
    \/ SMStopHSMEarlyQueue
    \/ SMStopHSMEarlyJoin

SpecLifecycle == SMInit /\ [][LifecycleNext]_vars

\* C16 (as stated): a life-cycle call made out of turn changes nothing: the
\* current state, the interrupt flag, the queue and its stopped flag and the
\* worker are as before, and the caller gets an error back (the process is
\* not brought down).
C16_LifecycleNoOp ==
    [][LifecycleError =>
         /\ UNCHANGED <<currentState, interrupt, queue, stopped, pcW, frames>>
         /\ pcM' # "aborted"]_vars

(***************************************************************************)
(* User code that fails: a guard, an action or an entry/exit hook throws.  *)
(* execute() has one try block, around nextEvent(), and it catches         *)
(* EventQueueInterruptedException only; what user code throws leaves       *)
(* execute(), which is the thread's function.                              *)
(***************************************************************************)
\* The guard throws: nothing of the transition has run.
SMGuardThrows ==
    /\ pcW = "guard"
    /\ outcome.t.guard
    /\ guardEvals' = guardEvals + guardCallsSM(outcome.t)
    /\ todo' = executeSteps(outcome.from, outcome.t)
    /\ outcome' = [outcome EXCEPT !.kind = "failed"]
    /\ pcW' = "terminated"
    /\ UNCHANGED <<queueVars, currentState, interrupt, cur, hooks, frames,
                   smWorkerFrame>>

\* A hook or the action throws: the steps before it have run, the failing
\* step stays at the head of todo.
SMStepThrows ==
    /\ pcW = "run"
    /\ Head(todo).op \in {"onExit", "onEntry", "action"}
    /\ outcome' = [outcome EXCEPT !.kind = "failed"]
    /\ pcW' = "terminated"
    /\ UNCHANGED <<queueVars, currentState, interrupt, cur, todo, hooks,
                   guardEvals, frames, smWorkerFrame>>

FaultNext ==
    \/ SMNext
    \/ SMGuardThrows
    \/ SMStepThrows

SpecSMFault == SMInit /\ [][FaultNext]_vars

\* C17 (as stated): a failure of the guard, the action or a hook is caught:
\* the thread is not brought down, the machine is terminated (its interrupt
\* flag set) and the queue stopped; when the action is what failed, the exit
\* hook has run, currentState is still the state before the transition and
\* the entry hook of the target has not run.
C17_FailureCaught ==
    outcome.kind = "failed" =>
        /\ pcW # "terminated"
        /\ stopped
        /\ interrupt[lastDeq.by]
        /\ Head(todo).op = "action" =>
              /\ currentState[lastDeq.by] = outcome.from
              /\ \E i \in DOMAIN hooks : hooks[i].op = "onExit"
              /\ \A i \in DOMAIN hooks : hooks[i].op # "onEntry"

(***************************************************************************)
(* Event (Event.h): ids handed out by the default constructor.  The        *)
(* counter of counter_inc is thread_local: every thread has its own,       *)
(* starting from 0.  The bound keeps the counters far below 2^32, where    *)
(* the uint32_t id would wrap.                                             *)
(***************************************************************************)
EventInit == EmptyTable /\ EmptyQueue /\ IdleMachine /\ EventsInit

\* A thread default-constructs an event.
NewEvent(th) ==
    /\ Len(made) < MaxEvents
    /\ EventDefault(th)
    /\ UNCHANGED <<tableVars, queueVars, machineVars>>

EventNext == \E th \in Threads : NewEvent(th)

SpecEvent == EventInit /\ [][EventNext]_vars

\* C18 (as stated): any two default-constructed events, on whichever
\* threads they were constructed, have different ids and compare unequal.
C18_UniqueIds ==
    \A i, j \in DOMAIN made :
        i # j => made[i].ev.id # made[j].ev.id /\ ~EventEq(made[i].ev, made[j].ev)

(***************************************************************************)
(* Claims about how the loop of StateMachine::execute ends.                *)
(***************************************************************************)
\* The machine that made the last dequeue has completed a transition into
\* its stop state.
LandedOnStop ==
    /\ outcome.kind = "transitioned"
    /\ lastDeq.by \in {"P", "C"}
    /\ outcome.t.toState = StopOf(lastDeq.by)

\* C19 (as stated): a transition into the stop state runs to its end, entry
\* hook and execute included; the machine then sets its interrupt flag at
\* the stop-state check, which leaves the queue alone, and never dequeues
\* another event.
C19_StopState ==
    /\ [](LandedOnStop =>
            /\ \E i \in DOMAIN hooks :
                  hooks[i].op = "onEntry" /\ hooks[i].st = StopOf(lastDeq.by)
            /\ hooks[Len(hooks)].op = "execute")
    /\ [][(SMStopCheck /\ currentState[Top] = StopOf(Top))
            => /\ interrupt'[Top]
               /\ UNCHANGED <<queue, dequeued>>
               /\ frames' = Pop(frames)]_vars
    /\ [][(LandedOnStop /\ SMNextEvent /\ queue' # queue)
            => Top # lastDeq.by]_vars

\* C20 (as stated): a dequeue interrupted while the machine's own interrupt
\* flag is set ends its loop with nothing dispatched; interrupted with the
\* flag clear, the interruption is raised as an error; and a stop made
\* through the machine never ends in that error, whatever the worker was
\* doing.
C20_InterruptedDequeue ==
    /\ [][(SMNextEvent /\ stopped) =>
            IF interrupt[Top]
               THEN /\ frames' = Pop(frames)
                    /\ pcW' \in {"done", "while"}
                    /\ UNCHANGED <<queue, dequeued, currentState, hooks, outcome>>
               ELSE pcW' = "terminated"]_vars
    /\ [](pcW # "terminated")

(***************************************************************************)
(* Claims about who writes currentState_, progress and restart.            *)
(***************************************************************************)
\* The worker thread of the root exists and has not been joined.
WorkerAlive == pcW \notin {"none", "joined"}

\* A step of the thread that calls into the root machine from outside.
SMCallerStep ==
    \/ \E id \in SMIds : SMSendEvent(id)
    \/ SMOnExit
    \/ SMStopInterrupt
    \/ SMStopQueue
    \/ SMStopJoin

\* C21 (as stated): while the worker is alive no call made from another
\* thread changes currentState, and the worker never finds currentState
\* nil at its table lookup or at any other use.
C21_WorkerOwnsState ==
    /\ [][(WorkerAlive /\ SMCallerStep) => currentState' = currentState]_vars
    /\ [](pcW = "lookup" => currentState[Top] # NoState)
    /\ [](pcW # "fault")

\* The worker thread of the orthogonal machine runs whenever it can; what
\* the caller does, and when, is up to the caller.
FairSpecOrtho == SpecOrtho /\ WF_vars(OrthoWorker)

\* The k-th event sent (its payload is k) is waiting in the queue / has
\* been taken out of it / is the one the worker holds.
Waiting(k) == \E i \in DOMAIN queue : queue[i].data = k
Taken(k) == \E i \in DOMAIN dequeued : dequeued[i].data = k
Held(k) == cur.data = k /\ pcW \in {"lookup", "oRoute"}

\* The dispatch of the k-th event has come to its end: a transition ran, a
\* guard rejected it, or the root dropped it.
Settled(k) ==
    cur.data = k /\ outcome.kind \in {"transitioned", "rejected", "unhandled"}

\* C22 (as stated): as long as the machine is not being stopped, every
\* event taken from the queue is eventually consumed by a transition or a
\* guard or discarded at the root, and every event waiting in the queue is
\* eventually dequeued: no event is pushed back to the front forever.
C22_DispatchProgress ==
    \A k \in 1 .. MaxSend :
        /\ Held(k) ~> (Settled(k) \/ pcM # "running")
        /\ (Waiting(k) /\ pcM = "running") ~> (Taken(k) \/ pcM # "running")

(***************************************************************************)
(* Restart: startHSM on a root machine that was started and stopped.  The  *)
(* thread was joined, so a new one can be assigned to smThread_; nothing   *)
(* in startHSM touches interrupt_ or the queue.                            *)
(***************************************************************************)
SMRestartHSM ==
    /\ pcM = "stopped"
    /\ currentState' = [currentState EXCEPT !["P"] = StartOf("P")]
    /\ frames' = <<"P">>
    /\ pcW' = "while"
    /\ pcM' = "restarted"
    /\ UNCHANGED <<queueVars, interrupt, sent, smCallerFrame>>

RestartNext ==
    \/ SMNext
    \/ SMRestartHSM

SpecRestart == SMInit /\ [][RestartNext]_vars

\* The worker thread runs whenever it can.
FairSpecRestart == SpecRestart /\ WF_vars(SMWorker)

\* C23 (as stated): a second start after start and stop leaves the machine
\* running in its start state with the interrupt flag clear and the queue
\* usable; the events waiting after the restart are dequeued; and the
\* recognized-event set never changes over start/stop cycles.
C23_Restart ==
    /\ [][SMRestartHSM =>
            /\ currentState'["P"] = StartOf("P")
            /\ ~interrupt'["P"]
            /\ ~stopped'
            /\ pcW' = "while"]_vars
    /\ [][eventSet_' = eventSet_]_vars
    /\ (pcM = "restarted" /\ queue # <<>>)
          ~> (queue = <<>> \/ pcM # "restarted")

====
